---------------------------- MODULE Spec2Model ----------------------------
(***************************************************************************)
(* Forest builder and selection engine of todoist_bot.                     *)
(*                                                                         *)
(*   tree.py          Node, _node_sort_key, _place_subs, map_id_to_branch  *)
(*   task_subsets.py  _has_suffix, select_serial / _parallel / _all        *)
(*   main.py          one refresh cycle: build the forest, select, queue   *)
(*   write_changes.py queue_new_label, queue_add_label, queue_remove_label *)
(*                                                                         *)
(* A Project, Section or Task is a record tagged with its class in the     *)
(* field "kind"; isinstance(x, Task) is x.kind = "Task".  Strings that the *)
(* code inspects (names, suffixes) are sequences of characters.  Python's  *)
(* None is the value None.  A dict is modelled by the sequence of its keys *)
(* in insertion order.                                                     *)
(***************************************************************************)
EXTENDS Integers, Sequences, FiniteSets, TLC

VARIABLES
    projects,       \* list[Project] of the fetched batch
    sections,       \* list[Section] of the fetched batch
    tasks,          \* list[Task] of the fetched batch
    project_nodes,  \* keys of map_id_to_branch's project_nodes, insertion order
    section_nodes,  \* keys of section_nodes
    task_nodes,     \* keys of task_nodes
    data,           \* Node.data of every node, by id
    children,       \* Node._children of every node, by id
    sorted,         \* Node._are_children_sorted of every node, by id
    queue,          \* _place_subs' pending deque
    pc,             \* position of the refresh cycle
    err,            \* the exception that ended the cycle, or NoError
    id2node,        \* keys of the mapping map_id_to_branch returned
    policy,         \* the selecter called last
    suffix,         \* the suffix it was called with
    toMark,         \* ids of the tasks it returned as selected
    toClear,        \* ids of the tasks it returned as rejected
    nsel,           \* number of selecter calls made on this forest
    todoist_label_names,  \* names of the fetched personal labels
    arg_labels,     \* the labels that the --serial/--parallel/--all arguments name
    commands,       \* main's list of queued commands
    selections      \* per _mark_selection call that returned: label, pair returned

vars == <<projects, sections, tasks, project_nodes, section_nodes, task_nodes,
          data, children, sorted, queue, pc, err, id2node, policy, suffix, toMark,
          toClear, nsel, todoist_label_names, arg_labels, commands, selections>>

None == "None"
NoError == "NoError"

----------------------------------------------------------------------------
(* Bounds of the fetched batch.                                            *)

MaxOrder == 1
MaxSelects == 2
MaxMarkers == 2

ProjectIds == <<"P1", "P2">>
SectionIds == <<"S1">>
TaskIds == <<"T1", "T2", "T3">>

Range(s) == {s[i] : i \in 1..Len(s)}

AllIds == Range(ProjectIds) \cup Range(SectionIds) \cup Range(TaskIds)

PlainName == <<"x">>
MarkedName == <<"x", "-", " ">>
Suffixes == {<<"-">>}
Labels == <<"a", "b">>

----------------------------------------------------------------------------
(* Sequence helpers.                                                       *)

RECURSIVE SeqFilter(_, _)
SeqFilter(s, keep) ==
    IF s = <<>> THEN <<>>
    ELSE (IF Head(s) \in keep THEN <<Head(s)>> ELSE <<>>) \o SeqFilter(Tail(s), keep)

Ids(models) == [i \in 1..Len(models) |-> models[i].id]

(* The model that the node with the given id wraps.                        *)
Data(id) == data[id]

(* {m.id: Node(m) for m in models}: the data of the new nodes.             *)
Wrap(models) ==
    [id \in AllIds |->
        IF \E i \in 1..Len(models) : models[i].id = id
        THEN models[CHOOSE i \in 1..Len(models) : models[i].id = id]
        ELSE data[id]]

IsTask(id) == Data(id).kind = "Task"


----------------------------------------------------------------------------
(* tree.py: Node                                                           *)

KeyError == "KeyError"
RecursionError == "RecursionError"
SortedNodeError == "ValueError: Cannot add a child to a sorted node"
DanglingParentError == "ValueError: Could not find a parent for all tasks"
NodeTypeError == "ValueError: Unexpected node type"

(* sys.getrecursionlimit() is far above the size of a batch; a traversal   *)
(* deeper than the number of nodes has met a node twice and never ends.    *)
RecursionLimit == Cardinality(AllIds) + 1

(* _node_sort_key: (1, order) for a Task, (2, order) for a Section; the    *)
(* third test repeats isinstance(Task), so a Project falls through to the  *)
(* raise.                                                                  *)
_node_sort_key(id) ==
    LET d == Data(id)
    IN  IF d.kind = "Task" THEN <<1, d.order>>
        ELSE IF d.kind = "Section" THEN <<2, d.order>>
        ELSE IF d.kind = "Task" /\ d.parent_id # None THEN <<3, d.order>>
        ELSE <<NodeTypeError>>

KeyLess(a, b) == a[1] < b[1] \/ (a[1] = b[1] /\ a[2] < b[2])

RECURSIVE InsertByKey(_, _)
InsertByKey(x, s) ==
    IF s = <<>> THEN <<x>>
    ELSE IF KeyLess(_node_sort_key(x), _node_sort_key(Head(s))) THEN <<x>> \o s
    ELSE <<Head(s)>> \o InsertByKey(x, Tail(s))

(* sorted(list, key=_node_sort_key): stable, ascending.                    *)
RECURSIVE SortedByKey(_)
SortedByKey(s) ==
    IF s = <<>> THEN <<>>
    ELSE InsertByKey(s[Len(s)], SortedByKey(SubSeq(s, 1, Len(s) - 1)))

(* add_child without the test of the sorted flag.                          *)
add_child_unguarded(ch, srt, n, c) ==
    [ch |-> [ch EXCEPT ![n] = Append(@, c)], err |-> NoError]

(* Node.add_child on node n of the forest (ch, srt).                       *)
add_child(ch, srt, n, c) ==
    IF srt[n] THEN [ch |-> ch, err |-> SortedNodeError]
    ELSE [ch |-> [ch EXCEPT ![n] = Append(@, c)], err |-> NoError]

(* _sort_children that turns the cached order round on every later call.   *)
_sort_children_recached(st, n) ==
    IF st.srt[n]
    THEN [st EXCEPT !.ch[n] = [i \in 1..Len(@) |-> @[Len(@) + 1 - i]]]
    ELSE IF \E i \in 1..Len(st.ch[n]) : _node_sort_key(st.ch[n][i]) = <<NodeTypeError>>
         THEN [st EXCEPT !.err = NodeTypeError]
    ELSE [st EXCEPT !.ch[n] = SortedByKey(st.ch[n]), !.srt[n] = TRUE]

(* Node._sort_children on node n; st carries the forest (ch, srt), the     *)
(* tasks yielded so far (out) and the exception raised (err).              *)
_sort_children(st, n) ==
    IF st.srt[n] THEN st
    ELSE IF \E i \in 1..Len(st.ch[n]) : _node_sort_key(st.ch[n][i]) = <<NodeTypeError>>
         THEN [st EXCEPT !.err = NodeTypeError]
    ELSE [st EXCEPT !.ch[n] = SortedByKey(st.ch[n]), !.srt[n] = TRUE]

(* A generator consumed by next() is left suspended at its first yield.    *)
Suspended(st, first) == first /\ st.out # <<>>

(* Node.iter_tasks (childless = FALSE) and Node.iter_childless_tasks       *)
(* (childless = TRUE) on node n, consumed whole or only up to the first    *)
(* yield: sort the children, traverse them in order, then yield self.      *)
RECURSIVE iter_tasks(_, _, _, _, _)
RECURSIVE IterChildren(_, _, _, _, _)

(* Lines 87-88 and 101-102, reached once the loop over the children ended. *)
YieldSelf(n, st, childless, first) ==
    IF st.err # NoError \/ Suspended(st, first) THEN st
    ELSE IF IsTask(n) /\ (childless => st.ch[n] = <<>>)
         THEN [st EXCEPT !.out = Append(@, n)]
    ELSE st

(* Lines 85-86 and 99-100, reached once _sort_children returned.           *)
IterSorted(n, st, childless, first, depth) ==
    IF st.err # NoError THEN st
    ELSE YieldSelf(n, IterChildren(st.ch[n], st, childless, first, depth - 1),
                   childless, first)

iter_tasks(n, st, childless, first, depth) ==
    IF depth = 0 THEN [st EXCEPT !.err = RecursionError]
    ELSE IterSorted(n, _sort_children(st, n), childless, first, depth)

IterChildren(cs, st, childless, first, depth) ==
    IF cs = <<>> \/ st.err # NoError \/ Suspended(st, first) THEN st
    ELSE IterChildren(Tail(cs), iter_tasks(Head(cs), st, childless, first, depth),
                      childless, first, depth)

----------------------------------------------------------------------------
(* tree.py: _place_subs and map_id_to_branch                               *)

(* A pass that forgets the nodes whose parent it does not find.            *)
RECURSIVE PlacePassDropping(_, _, _)
PlacePassDropping(k, keys, st) ==
    IF k = 0 \/ st.err # NoError THEN st
    ELSE LET child == Head(st.queue)
             parent_id == Data(child).parent_id
         IN  IF parent_id \in Range(keys)
             THEN LET r == add_child(st.ch, sorted, parent_id, child)
                  IN  PlacePassDropping(k - 1, keys,
                                        [queue |-> Tail(st.queue), ch |-> r.ch,
                                         found |-> TRUE, err |-> r.err])
             ELSE PlacePassDropping(k - 1, keys, [st EXCEPT !.queue = Tail(st.queue)])

(* A pass that counts a node it puts back into the queue as placed.        *)
RECURSIVE PlacePassRequeueFound(_, _, _)
PlacePassRequeueFound(k, keys, st) ==
    IF k = 0 \/ st.err # NoError THEN st
    ELSE LET child == Head(st.queue)
             parent_id == Data(child).parent_id
         IN  IF parent_id \in Range(keys)
             THEN LET r == add_child(st.ch, sorted, parent_id, child)
                  IN  PlacePassRequeueFound(k - 1, keys,
                                            [queue |-> Tail(st.queue), ch |-> r.ch,
                                             found |-> TRUE, err |-> r.err])
             ELSE PlacePassRequeueFound(k - 1, keys,
                                        [st EXCEPT !.queue = Append(Tail(st.queue), child),
                                                   !.found = TRUE])

(* One pass of the for loop of _place_subs over the len(queue) pending     *)
(* nodes; keys are the keys of id2node.                                    *)
RECURSIVE PlacePass(_, _, _)
PlacePass(k, keys, st) ==
    IF k = 0 \/ st.err # NoError THEN st
    ELSE LET child == Head(st.queue)
             parent_id == Data(child).parent_id
         IN  IF parent_id \in Range(keys)
             THEN LET r == add_child(st.ch, sorted, parent_id, child)
                  IN  PlacePass(k - 1, keys,
                                [queue |-> Tail(st.queue), ch |-> r.ch,
                                 found |-> TRUE, err |-> r.err])
             ELSE PlacePass(k - 1, keys,
                            [st EXCEPT !.queue = Append(Tail(st.queue), child)])

(* A lookup that hangs every parentless task under its project.            *)
AttachTargetProject(d) == [id |-> d.project_id, keys |-> project_nodes]

(* The node a section or a parentless task is attached to, and the dict   *)
(* it is looked up in: lines 150, 157-160.                                 *)
AttachTarget(d) ==
    IF d.kind = "Section" THEN [id |-> d.project_id, keys |-> project_nodes]
    ELSE IF d.section_id # None THEN [id |-> d.section_id, keys |-> section_nodes]
    ELSE [id |-> d.project_id, keys |-> project_nodes]

(* The attach loops of map_id_to_branch (lines 149-150 and 156-160) over   *)
(* the nodes of the given models; a key that is missing raises KeyError.   *)
RECURSIVE AttachAll(_, _)
AttachAll(models, st) ==
    IF models = <<>> \/ st.err # NoError THEN st
    ELSE LET p == AttachTarget(Head(models))
         IN  IF p.id \notin Range(p.keys) THEN [st EXCEPT !.err = KeyError]
             ELSE AttachAll(Tail(models),
                            add_child(st.ch, sorted, p.id, Head(models).id))

(* The elements of a list at the kept positions, in list order.            *)
RECURSIVE KeepAt(_, _, _)
KeepAt(s, keep, i) ==
    IF i > Len(s) THEN <<>>
    ELSE (IF i \in keep THEN <<s[i]>> ELSE <<>>) \o KeepAt(s, keep, i + 1)

(* The models of a list that pass a test, in list order.                   *)
Where(models, Test(_)) ==
    KeepAt(models, {i \in 1..Len(models) : Test(models[i])}, 1)

WithParent(m) == m.parent_id # None
WithoutParent(m) == m.parent_id = None

(* deque(x for x in id2node.values() if x.data.parent_id is not None)      *)
PendingOf(models) == Ids(Where(models, WithParent))

Unselected ==
    /\ policy' = policy /\ suffix' = suffix
    /\ toMark' = toMark /\ toClear' = toClear /\ nsel' = nsel
    /\ commands' = commands /\ selections' = selections

Batch == <<projects, sections, tasks, todoist_label_names, arg_labels>>

(* map_id_to_branch, lines 143-145: wrap the projects, enter _place_subs.  *)
BuildProjects ==
    /\ pc = "map_id_to_branch"
    /\ project_nodes' = Ids(projects)
    /\ data' = Wrap(projects)
    /\ queue' = PendingOf(projects)
    /\ pc' = "place_projects"
    /\ UNCHANGED <<Batch, section_nodes, task_nodes, children, sorted, err, id2node>>
    /\ Unselected

(* _place_subs, lines 117-129: one pass of the while loop.                 *)
PlaceSubsPass ==
    /\ pc \in {"place_projects", "place_tasks"}
    /\ queue # <<>>
    /\ \E r \in {PlacePass(Len(queue),
                           IF pc = "place_projects" THEN project_nodes ELSE task_nodes,
                           [queue |-> queue, ch |-> children, found |-> FALSE,
                            err |-> NoError])} :
           /\ children' = r.ch
           /\ queue' = r.queue
           /\ err' = IF r.err # NoError THEN r.err
                     ELSE IF ~r.found THEN DanglingParentError
                     ELSE NoError
           /\ pc' = IF err' # NoError THEN "failed" ELSE pc
    /\ UNCHANGED <<Batch, project_nodes, section_nodes, task_nodes, data, sorted,
                   id2node>>
    /\ Unselected

(* map_id_to_branch, lines 147-154: _place_subs(project_nodes) returned;   *)
(* wrap and attach the sections, wrap the tasks, enter _place_subs.        *)
BuildSections ==
    /\ pc = "place_projects"
    /\ queue = <<>>
    /\ \E r \in {AttachAll(sections, [ch |-> children, err |-> NoError])} :
           /\ section_nodes' = Ids(sections)
           /\ children' = r.ch
           /\ err' = r.err
           /\ IF r.err # NoError
              THEN /\ pc' = "failed"
                   /\ data' = Wrap(sections)
                   /\ UNCHANGED <<task_nodes, queue>>
              ELSE /\ pc' = "place_tasks"
                   /\ data' = Wrap(sections \o tasks)
                   /\ task_nodes' = Ids(tasks)
                   /\ queue' = PendingOf(tasks)
    /\ UNCHANGED <<Batch, project_nodes, sorted, id2node>>
    /\ Unselected

(* map_id_to_branch, lines 156-162: _place_subs(task_nodes) returned;      *)
(* attach the parentless tasks and return the merged mapping.              *)
BuildTasks ==
    /\ pc = "place_tasks"
    /\ queue = <<>>
    /\ \E r \in {AttachAll(Where(tasks, WithoutParent),
                           [ch |-> children, err |-> NoError])} :
           /\ children' = r.ch
           /\ err' = r.err
           /\ IF r.err # NoError
              THEN pc' = "failed" /\ UNCHANGED id2node
              ELSE pc' = "built"
                   /\ id2node' = project_nodes \o section_nodes \o task_nodes
    /\ UNCHANGED <<Batch, project_nodes, section_nodes, task_nodes, data, sorted,
                   queue>>
    /\ Unselected

----------------------------------------------------------------------------
(* task_subsets.py                                                         *)

IsSpace(c) == c = " "

(* str.strip(): drop the leading and the trailing whitespace.              *)
RECURSIVE LStrip(_)
LStrip(s) == IF s # <<>> /\ IsSpace(Head(s)) THEN LStrip(Tail(s)) ELSE s

RECURSIVE RStrip(_)
RStrip(s) ==
    IF s # <<>> /\ IsSpace(s[Len(s)]) THEN RStrip(SubSeq(s, 1, Len(s) - 1)) ELSE s

Strip(s) == RStrip(LStrip(s))

(* str.endswith                                                            *)
EndsWith(s, sfx) ==
    /\ Len(sfx) <= Len(s)
    /\ SubSeq(s, Len(s) - Len(sfx) + 1, Len(s)) = sfx

_has_suffix(elem, sfx) ==
    LET name == IF elem.kind \in {"Project", "Section"} THEN elem.name
                ELSE elem.content
    IN  EndsWith(Strip(name), sfx)

(* filter(fselect, projects + sections + tasks), as ids.                   *)
Marked(sfx) ==
    LET HasIt(m) == _has_suffix(m, sfx)
    IN  Ids(Where(projects \o sections \o tasks, HasIt))

(* dict.update: known keys keep their place, new keys are appended.        *)
RECURSIVE DictUpdate(_, _)
DictUpdate(sel, new) ==
    IF new = <<>> THEN sel
    ELSE DictUpdate(IF Head(new) \in Range(sel) THEN sel ELSE Append(sel, Head(new)),
                    Tail(new))

(* The loop over the marked models that the three selecters share: each    *)
(* marker's node is traversed and what it yields is merged into selected.  *)
RECURSIVE SelectLoop(_, _, _, _)
SelectLoop(ms, st, childless, first) ==
    IF ms = <<>> \/ st.err # NoError THEN st
    ELSE LET r == iter_tasks(Head(ms),
                             [ch |-> st.ch, srt |-> st.srt, out |-> <<>>,
                              err |-> NoError],
                             childless, first, RecursionLimit)
         IN  SelectLoop(Tail(ms),
                        [ch |-> r.ch, srt |-> r.srt, err |-> r.err,
                         selected |-> DictUpdate(st.selected, r.out)],
                        childless, first)

(* A pair whose rejected list is not filtered by the selected ids.         *)
ReturnedUnfiltered(st) ==
    [ch |-> st.ch, srt |-> st.srt, err |-> st.err,
     toMark |-> IF st.err = NoError THEN st.selected ELSE <<>>,
     toClear |-> IF st.err = NoError THEN Ids(tasks) ELSE <<>>]

(* What a selecter hands back: the forest as the traversal left it, the    *)
(* exception if one was raised, and the pair (selected, rejected).         *)
Returned(st) ==
    [ch |-> st.ch, srt |-> st.srt, err |-> st.err,
     toMark |-> IF st.err = NoError THEN st.selected ELSE <<>>,
     toClear |-> IF st.err = NoError
                 THEN SeqFilter(Ids(tasks), Range(Ids(tasks)) \ Range(st.selected))
                 ELSE <<>>]

Forest == [ch |-> children, srt |-> sorted, err |-> NoError, selected |-> <<>>]

select_serial(sfx) == Returned(SelectLoop(Marked(sfx), Forest, TRUE, TRUE))

(* select_parallel that leaves out the marked models themselves.           *)
select_parallel_beneath(sfx) ==
    LET st == SelectLoop(Marked(sfx), Forest, TRUE, FALSE)
    IN  Returned([st EXCEPT
                    !.selected = SeqFilter(@, Range(@) \ Range(Marked(sfx)))])

select_parallel(sfx) == Returned(SelectLoop(Marked(sfx), Forest, TRUE, FALSE))

select_all(sfx) == Returned(SelectLoop(Marked(sfx), Forest, FALSE, FALSE))

Policies == {"serial", "parallel", "all"}

Selecter(pol, sfx) ==
    CASE pol = "serial" -> select_serial(sfx)
      [] pol = "parallel" -> select_parallel(sfx)
      [] pol = "all" -> select_all(sfx)

----------------------------------------------------------------------------
(* write_changes.py: the commands that main queues                         *)

queue_new_label(calls, label) ==
    Append(calls, [type |-> "label_add", args |-> [name |-> label]])

queue_add_label(calls, task, label) ==
    Append(calls, [type |-> "item_update",
                   args |-> [id |-> task.id, labels |-> Append(task.labels, label)]])

(* [x for x in labels if x != label]                                       *)
queue_remove_label(calls, task, label) ==
    Append(calls, [type |-> "item_update",
                   args |-> [id |-> task.id,
                             labels |-> SeqFilter(task.labels,
                                                  Range(task.labels) \ {label})]])

----------------------------------------------------------------------------
(* main.py: the _mark_selection calls of one refresh cycle, lines 145-167  *)

RECURSIVE QueueAdds(_, _, _)
QueueAdds(calls, ids, label) ==
    IF ids = <<>> THEN calls
    ELSE QueueAdds(queue_add_label(calls, Data(Head(ids)), label), Tail(ids), label)

RECURSIVE QueueRemoves(_, _, _)
QueueRemoves(calls, ids, label) ==
    IF ids = <<>> THEN calls
    ELSE QueueRemoves(queue_remove_label(calls, Data(Head(ids)), label), Tail(ids),
                      label)

Labelled(label) == {t.id : t \in {x \in Range(tasks) : label \in Range(x.labels)}}

(* Lines 151-158: what _mark_selection adds to commands for the pair that  *)
(* the selecter returned.                                                  *)
Queued(calls, label, to_label, to_clear) ==
    LET lacking == SeqFilter(to_label, Range(to_label) \ Labelled(label))
        new == IF lacking # <<>> /\ label \notin Range(todoist_label_names)
               THEN queue_new_label(calls, label)
               ELSE calls
    IN  QueueRemoves(QueueAdds(new, lacking, label),
                     SeqFilter(to_clear, Labelled(label)), label)

Select(pol, sfx, label) ==
    /\ pc = "built"
    /\ nsel < MaxSelects
    /\ \E r \in {Selecter(pol, sfx)} :
           /\ children' = r.ch
           /\ sorted' = r.srt
           /\ err' = r.err
           /\ toMark' = r.toMark
           /\ toClear' = r.toClear
           /\ pc' = IF r.err = NoError THEN "built" ELSE "crashed"
           /\ IF r.err = NoError
              THEN /\ commands' = Queued(commands, label, r.toMark, r.toClear)
                   /\ selections' = Append(selections,
                                           [label |-> label, toMark |-> r.toMark,
                                            toClear |-> r.toClear])
              ELSE UNCHANGED <<commands, selections>>
    /\ policy' = pol
    /\ suffix' = sfx
    /\ nsel' = nsel + 1
    /\ UNCHANGED <<Batch, project_nodes, section_nodes, task_nodes, data, queue,
                   id2node>>

(* A holder of the forest calls add_child on a node that a traversal has   *)
(* already sorted: tree.py lines 59-66.                                    *)
AddChildAfterSort(n, c) ==
    /\ pc = "built"
    /\ nsel > 0
    /\ n \in Range(id2node)
    /\ sorted[n]
    /\ \E r \in {add_child(children, sorted, n, c)} :
           /\ children' = r.ch
           /\ err' = r.err
    /\ pc' = "add_child"
    /\ UNCHANGED <<Batch, project_nodes, section_nodes, task_nodes, data, sorted,
                   queue, id2node>>
    /\ Unselected

----------------------------------------------------------------------------
(* The fetched batch: np projects, ns sections and nt tasks with unique    *)
(* ids, every reference drawn from the ids of its kind (an id that is not  *)
(* in the batch is a dangling reference), sibling orders in 0..MaxOrder,   *)
(* and at most MaxMarkers names that carry the suffix.                     *)

NameOf(id, marked) == IF id \in marked THEN MarkedName ELSE PlainName

Project(i, parent, marked) ==
    [kind |-> "Project", id |-> ProjectIds[i], name |-> NameOf(ProjectIds[i], marked),
     order |-> 0, parent_id |-> parent[i]]

Section(i, owner, ord, marked) ==
    [kind |-> "Section", id |-> SectionIds[i], name |-> NameOf(SectionIds[i], marked),
     order |-> ord[i], project_id |-> owner[i]]

(* Where a task hangs: under a task, else in a section, else in a project. *)
TaskPlaces(taskRefs, projectRefs) ==
    {[parent_id |-> t, section_id |-> None, project_id |-> ProjectIds[1]] :
        t \in taskRefs}
    \cup {[parent_id |-> None, section_id |-> x, project_id |-> ProjectIds[1]] :
        x \in Range(SectionIds)}
    \cup {[parent_id |-> None, section_id |-> None, project_id |-> p] :
        p \in projectRefs}

Task(i, place, ord, marked) ==
    [kind |-> "Task", id |-> TaskIds[i], content |-> NameOf(TaskIds[i], marked),
     order |-> ord[i], parent_id |-> place[i].parent_id,
     section_id |-> place[i].section_id, project_id |-> place[i].project_id,
     labels |-> <<>>]

Prefix(s, n) == Range(SubSeq(s, 1, n))

(* The id of the node a section or task is to hang under.                  *)
PlaceKey(pl) ==
    IF pl.parent_id # None THEN pl.parent_id
    ELSE IF pl.section_id # None THEN pl.section_id
    ELSE pl.project_id

(* Sibling orders are only ever compared among the children of one node,  *)
(* so they are normalised: the least order among the sections and tasks    *)
(* that share a parent is 0.                                               *)
OrdersAmongSiblings(owner, sord, place, tord) ==
    LET keys == [i \in 1..(Len(owner) + Len(place)) |->
                    IF i <= Len(owner) THEN owner[i]
                    ELSE PlaceKey(place[i - Len(owner)])]
        ords == sord \o tord
    IN  \A i \in DOMAIN keys :
            \E j \in DOMAIN keys : keys[j] = keys[i] /\ ords[j] = 0

(* The batches of up to maxp projects and maxt tasks whose references are  *)
(* drawn from the given ids.                                               *)
Fetched(maxp, projectParents, projectRefs, maxt, taskRefs) ==
    \E np \in 1..maxp, ns \in 0..Len(SectionIds), nt \in 0..maxt :
      \E parent \in [1..np -> projectParents],
         owner \in [1..ns -> projectRefs],
         sord \in [1..ns -> 0..MaxOrder],
         place \in [1..nt -> TaskPlaces(taskRefs, projectRefs)],
         tord \in [1..nt -> 0..MaxOrder] :
        /\ OrdersAmongSiblings(owner, sord, place, tord)
        /\ \E marked \in SUBSET (Prefix(ProjectIds, np) \cup Prefix(SectionIds, ns)
                                 \cup Prefix(TaskIds, nt)) :
             /\ Cardinality(marked) <= MaxMarkers
             /\ projects = [i \in 1..np |-> Project(i, parent, marked)]
             /\ sections = [i \in 1..ns |-> Section(i, owner, sord, marked)]
             /\ tasks = [i \in 1..nt |-> Task(i, place, tord, marked)]

(* The state of a refresh cycle before map_id_to_branch is called.         *)
Unbuilt ==
    /\ project_nodes = <<>>
    /\ section_nodes = <<>>
    /\ task_nodes = <<>>
    /\ data = [id \in AllIds |-> [kind |-> None]]
    /\ children = [id \in AllIds |-> <<>>]
    /\ sorted = [id \in AllIds |-> FALSE]
    /\ queue = <<>>
    /\ pc = "map_id_to_branch"
    /\ err = NoError
    /\ id2node = <<>>
    /\ policy = None
    /\ suffix = <<>>
    /\ toMark = <<>>
    /\ toClear = <<>>
    /\ nsel = 0
    /\ commands = <<>>
    /\ selections = <<>>

(* One root project holding up to three tasks nested in any way, or up to  *)
(* two projects nested in any way holding up to two tasks; no task has a   *)
(* label, and every argument names the same label.                         *)
Init ==
    /\ \/ Fetched(1, {None}, {ProjectIds[1]}, Len(TaskIds), Range(TaskIds))
       \/ Fetched(Len(ProjectIds), {None} \cup Range(ProjectIds), Range(ProjectIds),
                  Len(TaskIds) - 1, Prefix(TaskIds, Len(TaskIds) - 1))
    /\ todoist_label_names = <<>>
    /\ arg_labels = {Labels[1]}
    /\ Unbuilt

LabelLists == {<<>>, <<Labels[1]>>, <<Labels[2]>>, Labels}

(* One root project holding one or two tasks, under it or under each       *)
(* other, each with any of the label lists; the arguments name two labels, *)
(* which are both among the fetched personal labels or both new.           *)
FetchedLabelled ==
    \E nt \in 1..(Len(TaskIds) - 1) :
      \E place \in [1..nt -> TaskPlaces(Prefix(TaskIds, nt), {ProjectIds[1]})],
         has \in [1..nt -> LabelLists],
         hit \in SUBSET ({ProjectIds[1]} \cup Prefix(TaskIds, nt)) :
        /\ Cardinality(hit) <= MaxMarkers
        /\ projects = <<Project(1, <<None>>, hit)>>
        /\ sections = <<>>
        /\ tasks = [i \in 1..nt |->
                       [Task(i, place, [j \in 1..nt |-> 0], hit) EXCEPT !.labels = has[i]]]

CycleInit ==
    /\ FetchedLabelled
    /\ todoist_label_names \in {<<>>, Labels}
    /\ arg_labels = Range(Labels)
    /\ Unbuilt

Next ==
    \/ BuildProjects
    \/ PlaceSubsPass
    \/ BuildSections
    \/ BuildTasks
    \/ \E pol \in Policies, sfx \in Suffixes, lb \in arg_labels : Select(pol, sfx, lb)
    \/ \E n \in AllIds : AddChildAfterSort(n, id2node[Len(id2node)])

Spec == Init /\ [][Next]_vars

CycleSpec == CycleInit /\ [][Next]_vars

(* map_id_to_branch runs to its end once it is called: nothing but its own *)
(* steps stands between one pass of _place_subs and the next.              *)
map_id_to_branch == BuildProjects \/ PlaceSubsPass \/ BuildSections \/ BuildTasks

LiveSpec == Spec /\ WF_vars(map_id_to_branch)

----------------------------------------------------------------------------
(* The hierarchy that the batch describes, read off the parent references  *)
(* of the fetched lists alone.                                             *)

Models == Range(projects) \cup Range(sections) \cup Range(tasks)

BatchIds == {m.id : m \in Models}

TaskIdSet == {m.id : m \in Range(tasks)}

ModelOf(id) == CHOOSE m \in Models : m.id = id

(* The structural parent: a project's parent project, a section's owning   *)
(* project, a task's parent task, else its section, else its project.      *)
StructParent(m) ==
    IF m.kind = "Project" THEN m.parent_id
    ELSE IF m.kind = "Section" THEN m.project_id
    ELSE IF m.parent_id # None THEN m.parent_id
    ELSE IF m.section_id # None THEN m.section_id
    ELSE m.project_id

(* The kind of entity a structural parent reference has to name.           *)
ParentKind(m) ==
    IF m.kind = "Task" /\ m.parent_id # None THEN "Task"
    ELSE IF m.kind = "Task" /\ m.section_id # None THEN "Section"
    ELSE "Project"

Resolves(m) ==
    \/ StructParent(m) = None
    \/ \E q \in Models : q.id = StructParent(m) /\ q.kind = ParentKind(m)

(* x lies in the subtree of a: a is reached from x in at most k steps up.  *)
RECURSIVE Under(_, _, _)
Under(x, a, k) ==
    \/ x = a
    \/ /\ k > 0
       /\ x \in BatchIds
       /\ StructParent(ModelOf(x)) # None
       /\ Under(StructParent(ModelOf(x)), a, k - 1)

InSubtree(x, a) == Under(x, a, Cardinality(AllIds))

HasChildTask(t) == \E u \in Range(tasks) : u.parent_id = t

DisplayText(m) == IF m.kind = "Task" THEN m.content ELSE m.name

(* The text, with its trailing whitespace trimmed, ends with the suffix.   *)
IsMarker(m, sfx) ==
    LET text == DisplayText(m)
    IN  \E k \in Len(sfx)..Len(text) :
            /\ \A i \in (k + 1)..Len(text) : text[i] = " "
            /\ k > 0 => text[k] # " "
            /\ \A j \in 1..Len(sfx) : text[k - Len(sfx) + j] = sfx[j]

Markers(sfx) == {m.id : m \in {x \in Models : IsMarker(x, sfx)}}

(* The tasks in the subtree of at least one marker.                        *)
TasksUnderMarkers(sfx) ==
    {t \in TaskIdSet : \E a \in Markers(sfx) : InSubtree(t, a)}

NoDuplicates(s) == Cardinality(Range(s)) = Len(s)

(* The selecter called last has returned its pair.                         *)
HasReturned == pc = "built" /\ nsel > 0

----------------------------------------------------------------------------
(* C1: whichever selecter returns, its pair (toMark, toClear) partitions   *)
(* the tasks of the batch: no id is in both lists, no id occurs twice, and *)
(* together the two lists hold exactly the ids of the input tasks.         *)
C1_Partition ==
    HasReturned =>
        /\ Range(toMark) \cap Range(toClear) = {}
        /\ Range(toMark) \cup Range(toClear) = TaskIdSet
        /\ NoDuplicates(toMark) /\ NoDuplicates(toClear)

C1_Witness ==
    /\ HasReturned
    /\ policy = "serial"
    /\ toMark # <<>>
    /\ toClear # <<>>

(* What select_parallel returns when it returns: the childless tasks in    *)
(* the subtree of at least one marker, each once.                          *)
ParallelSelectsChildless ==
    /\ Range(toMark) = {t \in TasksUnderMarkers(suffix) : ~HasChildTask(t)}
    /\ NoDuplicates(toMark)

ParallelSelectsChildlessWhenReturned ==
    (HasReturned /\ policy = "parallel") => ParallelSelectsChildless

(* What select_all returns when it returns: the tasks in the subtree of at *)
(* least one marker, with or without children, each once.                  *)
AllSelectsEveryTask ==
    /\ Range(toMark) = TasksUnderMarkers(suffix)
    /\ NoDuplicates(toMark)

AllSelectsEveryTaskWhenReturned ==
    (HasReturned /\ policy = "all") => AllSelectsEveryTask

(* C5: map_id_to_branch returns a mapping only if every parent reference   *)
(* it attaches by resolves in the batch; otherwise it ends with an         *)
(* exception and returns nothing.  A returned mapping holds every entity   *)
(* of the batch, each one in the child list of its structural parent.      *)
Building == pc \in {"map_id_to_branch", "place_projects", "place_tasks"}

C5_DanglingParentFails ==
    /\ (\E m \in Models : ~Resolves(m)) => (Building \/ pc = "failed")
    /\ pc = "failed" => (err # NoError /\ id2node = <<>>)
    /\ Building => id2node = <<>>
    /\ ~Building /\ pc # "failed" =>
          /\ NoDuplicates(id2node)
          /\ Range(id2node) = BatchIds
          /\ \A m \in Models :
                StructParent(m) # None =>
                    \E i \in 1..Len(children[StructParent(m)]) :
                        children[StructParent(m)][i] = m.id

(* A task under a parent task that is not in the batch, next to a task     *)
(* whose parent is: the build has raised.                                  *)
C5_Witness ==
    /\ pc = "failed"
    /\ err = DanglingParentError
    /\ \E t, u \in Range(tasks) :
          /\ t.parent_id # None /\ t.parent_id \notin BatchIds
          /\ u.parent_id \in BatchIds

(* C9: on one forest and one suffix, when the three selecters return, the  *)
(* ids select_all marks include those select_parallel marks, which include *)
(* those select_serial marks.                                              *)
C9_PolicyMonotone ==
    pc = "built" =>
        \A sfx \in Suffixes :
            \A s \in {select_serial(sfx)}, p \in {select_parallel(sfx)},
               a \in {select_all(sfx)} :
                (s.err = NoError /\ p.err = NoError /\ a.err = NoError) =>
                    /\ Range(s.toMark) \subseteq Range(p.toMark)
                    /\ Range(p.toMark) \subseteq Range(a.toMark)

(* The three sets differ: serial marks one task, parallel two, all three.  *)
C9_Witness ==
    /\ pc = "built"
    /\ \E sfx \in Suffixes :
          /\ select_all(sfx).err = NoError
          /\ Len(select_serial(sfx).toMark) = 1
          /\ Len(select_parallel(sfx).toMark) = 2
          /\ Len(select_all(sfx).toMark) = 3

(* C10: no node is sorted while the forest is built; a traversal that      *)
(* returns has sorted the node it started from; a sorted node stays sorted *)
(* and keeps its child list as it is, through later traversals and through *)
(* add_child, which raises on it; no add_child of the build is made on a   *)
(* sorted node.                                                            *)
SortedIsOneWay ==
    \A n \in AllIds : sorted[n] => (sorted'[n] /\ children'[n] = children[n])

AddChildOnSortedRaises ==
    pc' = "add_child" => (err' = SortedNodeError /\ children' = children)

C10_SortedFlagOneWay ==
    /\ [](nsel = 0 => \A n \in AllIds : ~sorted[n])
    /\ [](pc # "add_child" => err # SortedNodeError)
    /\ [](HasReturned => \A n \in Markers(suffix) : sorted[n])
    /\ [][SortedIsOneWay /\ AddChildOnSortedRaises]_vars

(* add_child was called on a node that two traversals had gone through.    *)
C10_Witness ==
    /\ pc = "add_child"
    /\ err = SortedNodeError
    /\ nsel = 2
    /\ \E n \in AllIds : sorted[n] /\ Len(children[n]) > 1

----------------------------------------------------------------------------
(* The traversal order the documentation of _node_sort_key describes.      *)

KindRank(m) ==
    IF m.kind = "Task" THEN 1 ELSE IF m.kind = "Section" THEN 2 ELSE 3

Precedes(x, y) ==
    \/ KindRank(ModelOf(x)) < KindRank(ModelOf(y))
    \/ /\ KindRank(ModelOf(x)) = KindRank(ModelOf(y))
       /\ ModelOf(x).order <= ModelOf(y).order

StructChildren(n) == {m.id : m \in {x \in Models : StructParent(x) = n}}

IsChildlessTask(t) == t \in TaskIdSet /\ ~HasChildTask(t)

HoldsChildlessTask(n) == \E t \in TaskIdSet : IsChildlessTask(t) /\ InSubtree(t, n)

(* The childless tasks that a post-order traversal of n may meet first:    *)
(* n itself, or what comes first under a child of least key among the      *)
(* children that hold a childless task.                                    *)
RECURSIVE FirstChildless(_, _)
FirstChildless(n, k) ==
    IF IsChildlessTask(n) THEN {n}
    ELSE IF k = 0 THEN {}
    ELSE LET kids == {c \in StructChildren(n) : HoldsChildlessTask(c)}
             least == {c \in kids : \A d \in kids : Precedes(c, d)}
         IN  UNION {FirstChildless(c, k - 1) : c \in least}

Roots == {m.id : m \in {x \in Range(projects) : x.parent_id = None}}

(* Every parent reference resolves and leads up to a root project.         *)
IsForest ==
    /\ \A m \in Models : Resolves(m)
    /\ \A m \in Models : \E r \in Roots : InSubtree(m.id, r)

(* A selecter was called last and has returned or raised.                  *)
WasCalled == nsel > 0 /\ pc \in {"built", "crashed"}

(* Every marker that holds a childless task has one that may come first   *)
(* in toMark, and toMark holds nothing else: at most one task per marker,  *)
(* no id twice.                                                            *)
SerialPicksFirst ==
    /\ NoDuplicates(toMark)
    /\ Len(toMark) <= Cardinality({a \in Markers(suffix) : HoldsChildlessTask(a)})
    /\ \A a \in Markers(suffix) :
          HoldsChildlessTask(a) =>
              FirstChildless(a, Cardinality(AllIds)) \cap Range(toMark) # {}
    /\ \A t \in Range(toMark) :
          \E a \in Markers(suffix) : t \in FirstChildless(a, Cardinality(AllIds))

(* C2: on a batch that describes a forest, select_serial raises no error,  *)
(* also when a marker's subtree holds no childless task, and returns as    *)
(* toMark, for each marker whose subtree holds a childless task, the one   *)
(* met first in the post-order traversal of that subtree.                  *)
C2_SerialSelectsFirst ==
    (WasCalled /\ policy = "serial" /\ IsForest) => (err = NoError /\ SerialPicksFirst)

(* C3: on a batch that describes a forest, select_parallel returns as      *)
(* toMark exactly the childless tasks in the subtree of at least one       *)
(* marker, each once; a task that has a child task is never in toMark.     *)
C3_ParallelSelectsChildless ==
    (WasCalled /\ policy = "parallel" /\ IsForest) =>
        (err = NoError /\ ParallelSelectsChildless)

(* C4: on a batch that describes a forest, select_all returns as toMark    *)
(* exactly the tasks in the subtree of at least one marker, with or        *)
(* without children, each once.                                            *)
C4_AllSelectsEveryTask ==
    (WasCalled /\ policy = "all" /\ IsForest) =>
        (err = NoError /\ AllSelectsEveryTask)

(* What select_serial returns when it returns.                             *)
SerialPicksFirstWhenReturned ==
    (HasReturned /\ policy = "serial") => SerialPicksFirst

(* C6: the returned forest has no cycles and no orphans: every node is     *)
(* reached from the root projects along the child lists, and no node is    *)
(* its own descendant.                                                     *)
RECURSIVE ReachedFrom(_, _)
ReachedFrom(from, k) ==
    IF k = 0 THEN from
    ELSE ReachedFrom(from \cup UNION {Range(children[n]) : n \in from}, k - 1)

Descendants(n) == ReachedFrom(Range(children[n]), Cardinality(AllIds))

C6_NoCyclesNoOrphans ==
    id2node # <<>> =>
        /\ Range(id2node) \subseteq ReachedFrom(Roots, Cardinality(AllIds))
        /\ \A n \in Range(id2node) : n \notin Descendants(n)

(* C7: on a batch that describes a forest, the children of a traversed     *)
(* node are in ascending order of (kindRank, siblingOrder), tasks before   *)
(* sections before nested projects, and sorting them raises no error.      *)
C7_KindRankOrder ==
    IsForest =>
        /\ err # NodeTypeError
        /\ \A n \in AllIds :
              sorted[n] =>
                  \A i, j \in 1..Len(children[n]) :
                      i < j => Precedes(children[n][i], children[n][j])

(* C8: on a batch whose parent chains all resolve, select_parallel and     *)
(* select_all end without error and mark the (childless) tasks in the      *)
(* subtrees of the markers, at whatever depth of nested projects or        *)
(* subtasks they lie.                                                      *)
C8_DepthIndependence ==
    (WasCalled /\ policy \in {"parallel", "all"} /\ IsForest
        /\ TasksUnderMarkers(suffix) # {}) =>
        /\ err = NoError
        /\ Range(toMark) =
              {t \in TasksUnderMarkers(suffix) : policy = "all" \/ ~HasChildTask(t)}

----------------------------------------------------------------------------
(* The order of selection that the batch alone determines.                 *)

InputIds == Ids(projects \o sections \o tasks)

(* Of the entities kids, those of one kind and one sibling order, in input *)
(* order, followed by those of the higher orders and kinds.                *)
RECURSIVE ChildrenFrom(_, _, _)
ChildrenFrom(kids, rank, ord) ==
    IF rank > 3 THEN <<>>
    ELSE SeqFilter(InputIds,
                   {c.id : c \in {x \in kids : KindRank(x) = rank /\ x.order = ord}})
         \o (IF \E c \in kids : c.order > ord
             THEN ChildrenFrom(kids, rank, ord + 1)
             ELSE ChildrenFrom(kids, rank + 1, 0))

ChildrenInOrder(n) == ChildrenFrom({x \in Models : StructParent(x) = n}, 1, 0)

Raised == "raised"

(* What a post-order traversal of the nodes ns, one after the other, comes *)
(* to in turn: the tasks (with childless set, only those without child),   *)
(* and the point where it raises, on a project that has a nested project   *)
(* to sort or on a chain of children that does not end.                    *)
RECURSIVE Yielded(_, _, _)
Yielded(ns, childless, k) ==
    IF ns = <<>> THEN <<>>
    ELSE IF k = 0 THEN <<Raised>>
    ELSE LET n == Head(ns)
         IN  IF \E x \in Range(projects) : x.parent_id = n
             THEN <<Raised>>
             ELSE Yielded(ChildrenInOrder(n), childless, k - 1)
                  \o (IF n \in TaskIdSet /\ (childless => ~HasChildTask(n))
                      THEN <<n>> ELSE <<>>)
                  \o Yielded(Tail(ns), childless, k)

RECURSIVE FirstOccurrences(_)
FirstOccurrences(s) ==
    IF s = <<>> THEN <<>>
    ELSE <<Head(s)>>
         \o FirstOccurrences(SeqFilter(Tail(s), Range(Tail(s)) \ {Head(s)}))

(* The markers in the order of the input lists.                            *)
MarkersInOrder(sfx) == SeqFilter(InputIds, Markers(sfx))

FirstOf(s) == IF s = <<>> THEN <<>> ELSE <<Head(s)>>

(* What the markers yield one after the other: all of it, or for serial    *)
(* only what each one yields first.                                        *)
RECURSIVE SelectedInTurn(_, _)
SelectedInTurn(ms, pol) ==
    IF ms = <<>> THEN <<>>
    ELSE (IF pol = "serial"
          THEN FirstOf(Yielded(<<Head(ms)>>, TRUE, Cardinality(AllIds) + 1))
          ELSE Yielded(<<Head(ms)>>, pol # "all", Cardinality(AllIds) + 1))
         \o SelectedInTurn(Tail(ms), pol)

Expected(pol, sfx) == SelectedInTurn(MarkersInOrder(sfx), pol)

Raises(expected) == Raised \in Range(expected)

OrderOfFirstSelection(expected) == FirstOccurrences(expected)

InputOrder(marked) == SeqFilter(Ids(tasks), TaskIdSet \ Range(marked))

(* C11: on a built forest, fresh or traversed before by any of the         *)
(* policies, whether a selecter returns and the toMark and toClear         *)
(* sequences it returns are determined by the ordered batch, the policy    *)
(* and the suffix alone, so two runs with one policy and suffix return the *)
(* same sequences; toClear is in the input order of the tasks, toMark in   *)
(* the order of first selection.                                           *)
C11_OrderDeterminism ==
    /\ pc = "built" =>
          \A pol \in Policies, sfx \in Suffixes :
              \A r \in {Selecter(pol, sfx)}, e \in {Expected(pol, sfx)} :
                  /\ r.err # NoError <=> Raises(e)
                  /\ r.err = NoError =>
                        /\ r.toMark = OrderOfFirstSelection(e)
                        /\ r.toClear = InputOrder(r.toMark)
    /\ HasReturned =>
          /\ toMark = OrderOfFirstSelection(Expected(policy, suffix))
          /\ toClear = InputOrder(toMark)

(* A second run on a forest, one of whose nodes holds in its cached order  *)
(* two children that arrived the other way round, and that returned two    *)
(* selected tasks in that order and a rejected one.                        *)
C11_Witness ==
    /\ HasReturned
    /\ nsel = 2
    /\ toClear # <<>>
    /\ \E n \in AllIds, a, b \in TaskIdSet :
          /\ sorted[n]
          /\ children[n] = <<b, a>>
          /\ \E i, j \in 1..Len(tasks) : i < j /\ tasks[i].id = a /\ tasks[j].id = b
                /\ tasks[i].parent_id = None /\ tasks[j].parent_id = None
          /\ \E i, j \in 1..Len(toMark) : i < j /\ toMark[i] = b /\ toMark[j] = a

----------------------------------------------------------------------------
(* C12: every pass of _place_subs over a non-empty queue either leaves the *)
(* queue strictly shorter or ends in the dangling-parent error, and        *)
(* _place_subs, once entered with pending nodes, comes to its end: the     *)
(* queue runs empty or the error is raised.                                *)
Placing == pc \in {"place_projects", "place_tasks"} /\ queue # <<>>

PassShrinksOrRaises ==
    Placing =>
        \/ pc' = pc /\ err' = NoError /\ Len(queue') < Len(queue)
        \/ pc' = "failed" /\ err' = DanglingParentError
               /\ Len(queue') = Len(queue) /\ children' = children

C12_PlaceSubsTerminates ==
    /\ [][PassShrinksOrRaises]_vars
    /\ Placing ~> (~Placing)

(* A pass has attached a pending task and put another one back, whose      *)
(* parent is in none of the lists: the next pass finds no parent.          *)
C12_Witness ==
    /\ pc = "place_tasks"
    /\ queue # <<>>
    /\ Len(queue) < Len(PendingOf(tasks))
    /\ \A i \in 1..Len(queue) : ModelOf(queue[i]).parent_id \notin BatchIds

----------------------------------------------------------------------------
(* C13: in a returned mapping every entity with a structural parent is     *)
(* exactly once in the child list of that parent and in no other child     *)
(* list, and a project without parent is in no child list; so the          *)
(* parent-to-children relation is the one the set of entities describes,   *)
(* whatever the order of the input lists.                                  *)
Occurrences(s, x) == Cardinality({i \in 1..Len(s) : s[i] = x})

ParentToChildren == {e \in AllIds \X AllIds : e[2] \in Range(children[e[1]])}

StructRelation == {<<StructParent(m), m.id>> : m \in {x \in Models : StructParent(x) # None}}

C13_OneStructuralParent ==
    id2node # <<>> =>
        /\ \A m \in Models :
              \A n \in AllIds :
                  Occurrences(children[n], m.id) = IF n = StructParent(m) THEN 1 ELSE 0
        /\ ParentToChildren = StructRelation

(* A mapping was returned for lists in which a task arrives before its     *)
(* parent task and a nested project before its parent project.             *)
C13_Witness ==
    /\ pc = "built"
    /\ nsel = 0
    /\ \E i, j \in 1..Len(tasks) : i < j /\ tasks[i].parent_id = tasks[j].id
    /\ \E i, j \in 1..Len(projects) :
          i < j /\ projects[i].parent_id = projects[j].id /\ projects[j].parent_id = None

----------------------------------------------------------------------------
(* The labels of the tasks once the queued commands are applied, in queue  *)
(* order, to the labels that were fetched: an item_update sets the label   *)
(* list of its task to the list it carries.                                *)

FetchedLabels == [id \in TaskIdSet |-> ModelOf(id).labels]

RECURSIVE Applied(_, _)
Applied(calls, has) ==
    IF calls = <<>> THEN has
    ELSE Applied(Tail(calls),
                 IF Head(calls).type = "item_update"
                 THEN [has EXCEPT ![Head(calls).args.id] = Head(calls).args.labels]
                 ELSE has)

LabelsFollow(sel, has) ==
    /\ \A t \in Range(sel.toMark) : sel.label \in Range(has[t])
    /\ \A t \in Range(sel.toClear) : sel.label \notin Range(has[t])

DifferentLabels ==
    \A i, j \in 1..Len(selections) : i # j => selections[i].label # selections[j].label

(* C14: when the _mark_selection calls of a cycle, each with a label of    *)
(* its own, have returned and the queued commands are applied in queue     *)
(* order to the fetched labels, every task in a call's toMark carries that *)
(* call's label and no task in its toClear carries it.                     *)
C14_LabelsFollowSelections ==
    (pc = "built" /\ DifferentLabels) =>
        \A has \in {Applied(commands, FetchedLabels)} :
            \A i \in 1..Len(selections) : LabelsFollow(selections[i], has)

(* What holds of the commands of a single call.                            *)
LabelsFollowOneSelection ==
    (pc = "built" /\ Len(selections) = 1) =>
        LabelsFollow(selections[1], Applied(commands, FetchedLabels))

============================================================================
